---- MODULE Spec2Model ----
(***************************************************************************)
(* Model of the VPS provisioning broker of backend/app:                    *)
(*   services/vps.py            VpsService (purchase_and_create, refund)   *)
(*   services/worker_selector.py WorkerSelector.select_for_product         *)
(*   services/worker_client.py  WorkerClient (create_vm, token_left)       *)
(*   api/vps.py                 POST /purchase-and-create, GET/DELETE      *)
(*                              /sessions/{id}, POST .../stop, GET .../log *)
(*   admin/seed.py              the one-shot admin bootstrap secret        *)
(* Requests are coroutines on one event loop: a step of a request is the   *)
(* code between two awaits (the database calls are synchronous).           *)
(***************************************************************************)
EXTENDS Integers, Sequences, FiniteSets, TLC

(* ---------------------------- bounds ----------------------------------- *)
NumReqs == 2
Reqs == 1..NumReqs

(* ------------------------- database content ---------------------------- *)
Users == {"u1", "u2"}
InitialBalance == 100
Workers == {"w1", "w2"}
None == "none"
NoAction == -1

\* vps_products rows; "px" is an id with no row
ProductIds == {"p1", "p2", "p3", "px"}
ProductRows ==
  [p1 |-> [price_coins |-> 60,  provision_action |-> 1, is_active |-> TRUE],
   p2 |-> [price_coins |-> 120, provision_action |-> 2, is_active |-> TRUE],
   p3 |-> [price_coins |-> 10,  provision_action |-> 1, is_active |-> FALSE]]
\* vps_product_workers association
ProductWorkers(p) == IF p = "p1" THEN {"w1"} ELSE {}
\* workers.max_sessions and the created_at order (desc) of the worker queries
MaxSessions == [w1 |-> 1, w2 |-> 0]
WorkerOrder == <<"w2", "w1">>

ACTIVE_STATUSES == {"pending", "provisioning", "ready"}
MAX_WORKER_RETRIES == 3
\* _initial_session: expires_at = now + timedelta(hours=5); the clock counts hours
SESSION_HOURS == 5
NoTime == -1

VARIABLES
  workerStatus,  \* workers.status
  sessions,      \* vps_sessions rows, index = session id
  ledger,        \* ledger entries grouped by ref_id (session id), in commit order
  balance,       \* wallet balance per user
  events,        \* events published on the bus per session id, in order
  req,           \* per purchase request: position and locals of the coroutine
  max_sessions,  \* workers.max_sessions
  product_workers, \* vps_product_workers: product id -> associated workers
  selected,      \* the last select_for_product call and what it returned
  now,           \* datetime.now(timezone.utc), in hours
  ops,           \* per session request (get, stop, log, cleanup): position and locals
  client,        \* a WorkerClient.create_vm call: its POSTs and what it returned
  boot           \* the admin_bootstrap row of service_status and the calls made on it

vars == <<workerStatus, sessions, ledger, balance, events, req,
          max_sessions, product_workers, selected, now, ops, client, boot>>

NoSelection == [op |-> "none", product |-> None, exclude |-> {}, raised |-> FALSE,
                worker |-> None]

IdleReq ==
  [pc |-> "idle", user |-> None, key |-> None, product |-> None,
   worker_action |-> NoAction, action_to_use |-> NoAction,
   sid |-> 0, worker |-> None, attempted |-> {}, attempt |-> 0,
   probe |-> "none", tokens_left |-> 0, calls |-> <<>>,
   exc |-> [code |-> 0, detail |-> None], route |-> None, log_url |-> <<>>,
   code |-> 0, detail |-> None, created |-> FALSE, ret |-> 0]

\* no create_vm call has been made
IdleClient ==
  [pc |-> "idle", worker |-> None, action |-> NoAction, attempt |-> 0, posts |-> 0,
   seen |-> <<>>,
   result |-> [kind |-> None, code |-> 0, detail |-> None, route |-> None, log_url |-> <<>>]]

(* ------------------- admin/seed.py: the bootstrap secret ---------------- *)
\* settings.default_password: None when it is not configured
Passwords == {None, "a", "b"}
\* secrets a caller may present
Secrets == {"", "a", "b", "c"}
\* hashlib.sha256(...).hexdigest(): a digest per text, no two alike
Sha256(text) ==
  CASE text = "" -> "e3b0" [] text = "a" -> "ca97" [] text = "b" -> "3e23"
    [] text = "c" -> "2e7d"

\* meta_json: the keys it holds and their values
EmptyMeta == [keys |-> {}, secret_hash |-> None, consumed |-> FALSE]
\* the service_status row of BOOTSTRAP_SERVICE
NoRecord == [exists |-> FALSE, status |-> None, meta |-> EmptyMeta]
\* meta.get("consumed") and meta.get("secret_hash")
MetaConsumed(meta) == "consumed" \in meta.keys /\ meta.consumed
MetaHash(meta) == IF "secret_hash" \in meta.keys THEN meta.secret_hash ELSE None

\* variant: a new password is stored whether or not the secret was consumed
EnsureBootstrapRecordReset(record, default_password) ==
  LET rec == IF ~record.exists
             THEN [exists |-> TRUE, status |-> "pending", meta |-> EmptyMeta]
             ELSE record
      meta == rec.meta
  IN IF default_password # None
       THEN IF MetaHash(meta) # Sha256(default_password)
              THEN [rec EXCEPT !.status = "ready",
                               !.meta = [keys |-> {"secret_hash", "consumed"},
                                         secret_hash |-> Sha256(default_password),
                                         consumed |-> FALSE]]
            ELSE rec
     ELSE IF ~MetaConsumed(meta) THEN [rec EXCEPT !.status = "pending"] ELSE rec

\* _ensure_bootstrap_record
EnsureBootstrapRecord(record, default_password) ==
  LET rec == IF ~record.exists
             THEN [exists |-> TRUE, status |-> "pending", meta |-> EmptyMeta]
             ELSE record
      meta == rec.meta
  IN IF default_password # None
       THEN IF MetaHash(meta) # Sha256(default_password) /\ ~MetaConsumed(meta)
              THEN [rec EXCEPT !.status = "ready",
                               !.meta = [keys |-> meta.keys \cup {"secret_hash", "consumed"},
                                         secret_hash |-> Sha256(default_password),
                                         consumed |-> FALSE]]
            ELSE rec
     ELSE IF ~MetaConsumed(meta) THEN [rec EXCEPT !.status = "pending"] ELSE rec

\* seed_defaults: of what it seeds, the bootstrap record (then the commit)
SeedDefaults(record, default_password) == EnsureBootstrapRecord(record, default_password)

\* bootstrap_secret_valid
BootstrapSecretValid(record, secret) ==
  IF ~record.exists \/ record.meta.keys = {} THEN FALSE
  ELSE IF MetaConsumed(record.meta) THEN FALSE
  ELSE IF MetaHash(record.meta) = None THEN FALSE
  ELSE Sha256(secret) = MetaHash(record.meta)

\* mark_bootstrap_consumed
MarkBootstrapConsumed(record) ==
  IF ~record.exists THEN record
  ELSE [record EXCEPT !.status = "consumed",
                      !.meta = [@ EXCEPT !.keys = @ \cup {"consumed"}, !.consumed = TRUE]]

\* init_admin: the application has started with default_password configured
Started(default_password) ==
  [record |-> SeedDefaults(NoRecord, default_password),
   log |-> <<[op |-> "seed", arg |-> default_password, ret |-> FALSE]>>]

Init ==
  /\ workerStatus \in [Workers -> {"active", "disabled"}]
  /\ sessions = <<>>
  /\ ledger = <<>>
  /\ balance = [u \in Users |-> InitialBalance]
  /\ events = <<>>
  /\ req = [r \in Reqs |-> IdleReq]
  /\ max_sessions = MaxSessions
  /\ product_workers = [p \in ProductIds |-> ProductWorkers(p)]
  /\ selected = NoSelection
  /\ now = 0
  /\ ops = <<>>
  /\ client = IdleClient
  /\ boot = Started(None)

(* ------------------------------ helpers -------------------------------- *)
\* the mutable store a handler works on
Store == [sessions |-> sessions, ledger |-> ledger, balance |-> balance, events |-> events]

Min(S) == CHOOSE x \in S : \A y \in S : x <= y

\* SessionEventBus.publish(session_id, event)
Publish(st, sid, ev) ==
  [st EXCEPT !.events[sid] = Append(@, ev)]

\* WalletService.get_balance
GetBalance(st, user) == st.balance[user]

\* WalletService.adjust_balance: refuses a negative resulting balance, else
\* updates the balance and appends the ledger entry (no commit of its own)
AdjustBalance(st, user, amount, entry_type, ref_id, meta) ==
  IF st.balance[user] + amount < 0
  THEN [ok |-> FALSE, st |-> st]
  ELSE [ok |-> TRUE,
        st |-> [st EXCEPT !.balance[user] = @ + amount,
                          !.ledger[ref_id] = Append(@,
                             [user_id |-> user, type |-> entry_type,
                              amount |-> amount, ref_id |-> ref_id, meta |-> meta])]]

(* ------------------------- WorkerSelector ------------------------------ *)
\* _active_session_counts
ActiveSessionCount(st, w) ==
  Cardinality({i \in 1..Len(st.sessions) :
                 /\ st.sessions[i].worker_id = w
                 /\ st.sessions[i].status \in ACTIVE_STATUSES})

\* first element of a sequence of workers minimising the active count: min(workers, key=...)
FirstMin(st, ws) ==
  LET m == Min({ActiveSessionCount(st, ws[i]) : i \in 1..Len(ws)})
      k == Min({i \in 1..Len(ws) : ActiveSessionCount(st, ws[i]) = m})
  IN ws[k]

\* the workers of a query, ordered by created_at desc
Ordered(S) == SelectSeq(WorkerOrder, LAMBDA w : w \in S)

\* variant: the max_sessions cap is not looked at
SelectForProductNoCap(st, product_id) ==
  LET assoc == {w \in product_workers[product_id] : workerStatus[w] = "active"}
      anyActive == {w \in Workers : workerStatus[w] = "active"}
      workers == IF assoc # {} THEN assoc ELSE anyActive
      min_active == Min({ActiveSessionCount(st, w) : w \in workers})
  IN IF workers = {} THEN {}
     ELSE {w \in workers : ActiveSessionCount(st, w) = min_active}

\* variant: the first least-loaded candidate of the query instead of random.choice
SelectForProductFirst(st, product_id) ==
  LET assoc == {w \in product_workers[product_id] : workerStatus[w] = "active"}
      anyActive == {w \in Workers : workerStatus[w] = "active"}
      workers == IF assoc # {} THEN assoc ELSE anyActive
      candidates == {w \in workers :
                       ~(max_sessions[w] > 0 /\ ActiveSessionCount(st, w) >= max_sessions[w])}
  IN IF workers = {} THEN {}
     ELSE IF candidates = {} THEN {FirstMin(st, Ordered(workers))}
     ELSE {FirstMin(st, Ordered(candidates))}

\* variant: None when every worker is at its cap
SelectForProductStrict(st, product_id) ==
  LET assoc == {w \in product_workers[product_id] : workerStatus[w] = "active"}
      anyActive == {w \in Workers : workerStatus[w] = "active"}
      workers == IF assoc # {} THEN assoc ELSE anyActive
      candidates == {w \in workers :
                       ~(max_sessions[w] > 0 /\ ActiveSessionCount(st, w) >= max_sessions[w])}
      min_active == Min({ActiveSessionCount(st, w) : w \in candidates})
  IN IF candidates = {} THEN {}
     ELSE {w \in candidates : ActiveSessionCount(st, w) = min_active}

\* select_for_product(product_id): the set of workers it can return
\* ({} stands for None; random.choice makes it a set)
SelectForProduct(st, product_id) ==
  LET assoc == {w \in product_workers[product_id] : workerStatus[w] = "active"}
      anyActive == {w \in Workers : workerStatus[w] = "active"}
      workers == IF assoc # {} THEN assoc ELSE anyActive
      candidates == {w \in workers :
                       ~(max_sessions[w] > 0 /\ ActiveSessionCount(st, w) >= max_sessions[w])}
      min_active == Min({ActiveSessionCount(st, w) : w \in candidates})
  IN IF workers = {} THEN {}
     ELSE IF candidates = {} THEN {FirstMin(st, Ordered(workers))}
     ELSE {w \in candidates : ActiveSessionCount(st, w) = min_active}

\* variant: the re-selection is accepted and finds no other worker
SelectExcludeNoOther(st, product_id, exclude) ==
  [raised |-> FALSE, workers |-> {}]

\* select_for_product(product.id, exclude=attempted_workers) as the broker
\* calls it: the method has no such parameter, so the call raises TypeError
SelectExclude(st, product_id, exclude) ==
  [raised |-> TRUE, workers |-> {}]

(* --------------------------- WorkerClient ------------------------------ *)
NoUrl == <<>>
BaseUrl(w) == <<"http://", w>>

\* what a worker can answer to GET /tokenleft
TokenReplies ==
  {[kind |-> "slots", n |-> n] : n \in {0, 1}} \cup
  {[kind |-> k, n |-> 0] : k \in {"nokey", "badjson", "timeout", "connect", "httpstatus", "other"}}

\* token_left: the reported totalSlots (0 when the key is absent), -1 on a
\* parse failure or an httpx error; any other exception escapes
TokenLeft(reply) ==
  CASE reply.kind = "slots" -> [raised |-> FALSE, value |-> reply.n]
    [] reply.kind = "nokey" -> [raised |-> FALSE, value |-> 0]
    [] reply.kind \in {"badjson", "timeout", "connect", "httpstatus"} ->
         [raised |-> FALSE, value |-> -1]
    [] OTHER -> [raised |-> TRUE, value |-> 0]

\* error texts of a worker and the marker substrings each contains
WorkerDetails == {None, "Server busy, retry later", "No available tokens left"}
Contains(detail, needle) ==
  \/ detail = "Server busy, retry later" /\ needle = "Server busy"
  \/ detail = "No available tokens left" /\ needle = "No available tokens"

\* log urls of a 200 answer: the value under logUrl/log_url, or why there is none
LogKinds == {"notdict", "missing", "/log/", "/log/r1", "http://h/x/r2"}

\* _extract_route: "" when the url has no route
ExtractRoute(log_url) ==
  CASE log_url = "/log/r1" -> "r1"
    [] log_url = "r3" -> "r3"
    [] log_url = "http://h/x/r2" -> "r2"
    [] OTHER -> ""

\* _normalize_log_url: absolute urls pass, others are joined to the base
NormalizeLogUrl(base, log_url) ==
  CASE log_url = "http://h/x/r2" -> <<log_url>>
    [] log_url = "r3" -> base \o <<"/", log_url>>
    [] OTHER -> base \o <<log_url>>

\* the answers to the POSTs of one create_vm call: n429 answers 429, then last
MaxAttempts == 3
Responses(n429, busyDetail, last) ==
  [i \in 1..MaxAttempts |-> IF i <= n429 THEN [status |-> 429, detail |-> busyDetail, log |-> "missing"]
                  ELSE last]
FinalResponses ==
  {[status |-> 200, detail |-> None, log |-> l] : l \in LogKinds} \cup
  {[status |-> c, detail |-> d, log |-> "missing"] : c \in {400, 401, 500}, d \in WorkerDetails}
\* the answer sequences a worker can give: up to two 429 and then a final
\* answer, or 429 throughout
CreateAnswers ==
  {Responses(n, None, last) : n \in 0..(MaxAttempts - 1), last \in FinalResponses} \cup
  {Responses(MaxAttempts, d, [status |-> 429, detail |-> d, log |-> "missing"])
     : d \in WorkerDetails}

\* number of POSTs create_vm sends: it re-sends on 429 up to max_attempts
RECURSIVE PostCount(_, _)
PostCount(resps, attempt) ==
  IF resps[attempt + 1].status # 429 THEN attempt + 1
  ELSE IF attempt + 1 >= MaxAttempts THEN attempt + 1
  ELSE PostCount(resps, attempt + 1)

HttpError(code, detail) == [kind |-> "http", code |-> code, detail |-> detail,
                            route |-> None, log_url |-> NoUrl]
OtherError == [kind |-> "exc", code |-> 0, detail |-> None, route |-> None, log_url |-> NoUrl]

\* create_vm(worker, action) given the worker's answers (transport = FALSE:
\* the POST itself raised an httpx error, which create_vm does not catch)
CreateVm(w, action, resps, transport) ==
  IF action \notin {1, 2, 3} THEN OtherError
  ELSE IF ~transport THEN OtherError
  ELSE
    LET response == resps[PostCount(resps, 0)]
        detail == response.detail
    IN IF response.status >= 400 THEN
         CASE response.status = 429 ->
                HttpError(503, IF detail # None THEN detail
                               ELSE "Worker is busy, please retry shortly.")
           [] response.status = 400 ->
                HttpError(400, IF detail # None THEN detail ELSE "Worker rejected the request")
           [] response.status = 401 ->
                HttpError(502, IF detail # None THEN detail ELSE "Worker authentication failed")
           [] OTHER ->
                HttpError(502, IF detail # None THEN detail ELSE "Worker creation failed")
       ELSE IF response.log = "notdict" THEN HttpError(502, "Worker returned unexpected payload")
       ELSE IF response.log = "missing"
         THEN HttpError(502, "Worker did not return a valid log url")
       ELSE IF ExtractRoute(response.log) = "" THEN HttpError(502, "Worker log url is invalid")
       ELSE [kind |-> "ok", code |-> 200, detail |-> None,
             route |-> ExtractRoute(response.log),
             log_url |-> NormalizeLogUrl(BaseUrl(w), response.log)]

(* ----------------------- api/vps.py: request parsing -------------------- *)
KeyHeaders == {"", " ", "k1", " k1", "k2"}
\* str.strip on the Idempotency-Key header
Strip(h) == CASE h = " " -> "" [] h = " k1" -> "k1" [] OTHER -> h

RawActions == {NoAction, 0, 2, 4}
VmTypes == {"", "windows", "bogus"}
VmMapping == [linux |-> 1, windows |-> 2, win |-> 2, dummy |-> 3, test |-> 3]

\* worker_action_value of the endpoint: worker_action, else the mapped vm_type;
\* ok = FALSE is its 400 answer
ApiWorkerAction(raw, vm) ==
  LET fromVm == raw = NoAction /\ vm # ""
      value == IF ~fromVm THEN raw
               ELSE IF vm \in DOMAIN VmMapping THEN VmMapping[vm] ELSE NoAction
  IN IF fromVm /\ vm \notin DOMAIN VmMapping THEN [ok |-> FALSE, value |-> NoAction]
     ELSE IF value # NoAction /\ value \notin {1, 2, 3} THEN [ok |-> FALSE, value |-> NoAction]
     ELSE [ok |-> TRUE, value |-> value]

(* ------------------------------ VpsService ----------------------------- *)
\* the request ends: the endpoint answers `code`
Done(rq, code, detail) == [rq EXCEPT !.pc = "done", !.code = code, !.detail = detail]

Call(rq, op, w) == [rq EXCEPT !.calls = Append(@, [op |-> op, worker |-> w])]

\* variant: the lookup never finds a row
FindIdempotentNever(st, user, key) == {}

\* variant: the lookup sees only sessions in an active status
FindIdempotentActive(st, user, key) ==
  {i \in 1..Len(st.sessions) :
     /\ st.sessions[i].user_id = user /\ st.sessions[i].idempotency_key = key
     /\ st.sessions[i].status \in ACTIVE_STATUSES}

\* _find_idempotent: ids of the rows of (user, key)
FindIdempotent(st, user, key) ==
  {i \in 1..Len(st.sessions) :
     st.sessions[i].user_id = user /\ st.sessions[i].idempotency_key = key}

\* variant: the is_active test is missing
LoadProductAny(product_id) == product_id \in DOMAIN ProductRows

\* _load_product: the product is there and active
LoadProduct(product_id) ==
  product_id \in DOMAIN ProductRows /\ ProductRows[product_id].is_active

\* variant: the balance is not looked at
SufficientBalanceAlways(st, user, product_id) == TRUE

\* lines 153-156: the wallet holds the price of the product
SufficientBalance(st, user, product_id) ==
  GetBalance(st, user) >= ProductRows[product_id].price_coins

\* variant: the row is inserted without its worker
InitialSessionUnassigned(user, product_id, w, key) ==
  [user_id |-> user, product_id |-> product_id, worker_id |-> None, status |-> "pending",
   checklist |-> <<>>, worker_route |-> None, log_url |-> NoUrl, idempotency_key |-> key,
   rdp |-> None, created_at |-> now, expires_at |-> now + SESSION_HOURS]

\* _initial_session
InitialSession(user, product_id, w, key) ==
  [user_id |-> user, product_id |-> product_id, worker_id |-> w, status |-> "pending",
   checklist |-> <<>>, worker_route |-> None, log_url |-> NoUrl, idempotency_key |-> key,
   rdp |-> None, created_at |-> now, expires_at |-> now + SESSION_HOURS]

StatusEvent(st, sid) == [event |-> "status.update", status |-> st.sessions[sid].status,
                         items |-> <<>>]
ChecklistEvent(st, sid) == [event |-> "checklist.update", status |-> None,
                            items |-> st.sessions[sid].checklist]

\* variant: the row is committed on its own, before the debit
InsertThenDebit(st, user, product_id, w, key, dbok) ==
  LET sid == Len(st.sessions) + 1
      added == [st EXCEPT !.sessions = Append(@, InitialSession(user, product_id, w, key)),
                          !.ledger = Append(@, <<>>),
                          !.events = Append(@, <<>>)]
      adj == AdjustBalance(added, user, -ProductRows[product_id].price_coins,
                           "vps.purchase", sid, product_id)
  IN IF adj.ok /\ dbok THEN [ok |-> TRUE, st |-> adj.st, sid |-> sid, wallet |-> FALSE]
     ELSE [ok |-> FALSE, st |-> added, sid |-> 0, wallet |-> ~adj.ok]

\* lines 174-193: the row and the debit in one transaction (dbok = FALSE: the
\* flush or the commit raises and the transaction is rolled back; wallet: the
\* error is the wallet's own HTTPException, which is passed on)
InsertAndDebit(st, user, product_id, w, key, dbok) ==
  LET sid == Len(st.sessions) + 1
      added == [st EXCEPT !.sessions = Append(@, InitialSession(user, product_id, w, key)),
                          !.ledger = Append(@, <<>>),
                          !.events = Append(@, <<>>)]
      adj == AdjustBalance(added, user, -ProductRows[product_id].price_coins,
                           "vps.purchase", sid, product_id)
  IN IF adj.ok /\ dbok THEN [ok |-> TRUE, st |-> adj.st, sid |-> sid, wallet |-> FALSE]
     ELSE [ok |-> FALSE, st |-> st, sid |-> 0, wallet |-> ~adj.ok]

\* variant: the status event is published before the commit
RefundSessionPublishFirst(st, rq, reason, dbok) ==
  LET sid == rq.sid
      marked == [st EXCEPT !.sessions[sid].status = "failed",
                           !.sessions[sid].worker_route = None,
                           !.sessions[sid].log_url = NoUrl]
      adj == AdjustBalance(marked, rq.user, ProductRows[rq.product].price_coins,
                           "vps.refund", sid, reason)
  IN IF adj.ok /\ dbok
       THEN [raised |-> FALSE, st |-> Publish(adj.st, sid, StatusEvent(adj.st, sid))]
       ELSE [raised |-> TRUE, st |-> Publish(st, sid, StatusEvent(marked, sid))]

\* _refund_session: failed status, cleared handles and the credit in one
\* commit, then the status event; on a database error rollback and HTTP 500
RefundSession(st, rq, reason, dbok) ==
  LET sid == rq.sid
      marked == [st EXCEPT !.sessions[sid].status = "failed",
                           !.sessions[sid].worker_route = None,
                           !.sessions[sid].log_url = NoUrl]
      adj == AdjustBalance(marked, rq.user, ProductRows[rq.product].price_coins,
                           "vps.refund", sid, reason)
  IN IF adj.ok /\ dbok
       THEN [raised |-> FALSE, st |-> Publish(adj.st, sid, StatusEvent(adj.st, sid))]
       ELSE [raised |-> TRUE, st |-> st]

RefundFailed(rq) == Done(rq, 500, "Unable to refund VPS purchase")

\* the loop goes round: attempt += 1 and token_left(worker) is awaited
NextAttempt(rq, w) ==
  Call([rq EXCEPT !.pc = "probe", !.worker = w, !.attempt = @ + 1], "token_left", w)

\* lines 321-332: except Exception
ExceptException(st, rq, dbok) ==
  LET rf == RefundSession(st, rq, "worker_unreachable", dbok)
  IN {[st |-> rf.st,
       rq |-> IF rf.raised THEN RefundFailed(rq) ELSE Done(rq, 502, "Worker unreachable")]}

\* _switch_worker: the re-selection raises before anything is written
SwitchWorker(st, rq, dbok) ==
  LET sel == SelectExclude(st, rq.product, rq.attempted)
  IN IF sel.raised THEN {[raised |-> TRUE, worker |-> None, st |-> st, rq |-> rq]}
     ELSE IF sel.workers = {} THEN {[raised |-> FALSE, worker |-> None, st |-> st, rq |-> rq]}
     ELSE {[raised |-> ~dbok, worker |-> w,
            st |-> IF dbok THEN [st EXCEPT !.sessions[rq.sid].worker_id = w] ELSE st,
            rq |-> [rq EXCEPT !.attempted = @ \cup {w}]] : w \in sel.workers}

\* lines 288-320: except HTTPException as exc (reprobe: what token_left
\* answers for the worker _switch_worker returned)
ExceptHTTP(st, rq0, exc, dbok) ==
  LET rq == [rq0 EXCEPT !.exc = exc]
      detail == exc.detail
      retry == /\ rq.attempt < MAX_WORKER_RETRIES
               /\ detail # None
               /\ (Contains(detail, "No available tokens") \/ Contains(detail, "Server busy"))
      refund(s, q) ==
        LET rf == RefundSession(s, q, IF detail # None THEN detail
                                      ELSE "worker_creation_failed", dbok)
        IN [st |-> rf.st,
            rq |-> IF rf.raised THEN RefundFailed(q) ELSE Done(q, exc.code, exc.detail)]
      switched(sw, reprobe) ==
        IF sw.raised THEN [st |-> sw.st, rq |-> Done(sw.rq, 500, "Internal Server Error")]
        ELSE IF sw.worker = None THEN refund(sw.st, sw.rq)
        ELSE IF ~TokenLeft(reprobe).raised /\ TokenLeft(reprobe).value > 0
          THEN [st |-> sw.st,
                rq |-> NextAttempt(Call(sw.rq, "token_left", sw.worker), sw.worker)]
        ELSE refund(sw.st, Call(sw.rq, "token_left", sw.worker))
  IN IF retry THEN {switched(sw, reprobe) : sw \in SwitchWorker(st, rq, dbok),
                                            reprobe \in TokenReplies}
     ELSE {refund(st, rq)}

\* lines 231-286: the loop body once token_left has answered
AfterProbe(st, rq0, reply, dbok) ==
  LET tl == TokenLeft(reply)
      rq == [rq0 EXCEPT !.probe = IF tl.raised THEN "raised" ELSE "value",
                        !.tokens_left = tl.value]
      sel == SelectExclude(st, rq.product, rq.attempted)
      \* refund, then the 503 raised inside the try is caught by except HTTPException
      giveUp(reason, detail) ==
        LET rf == RefundSession(st, rq, reason, dbok)
        IN ExceptHTTP(rf.st, rq,
                      IF rf.raised THEN [code |-> 500, detail |-> "Unable to refund VPS purchase"]
                      ELSE [code |-> 503, detail |-> detail],
                      dbok)
  IN IF tl.raised THEN
       IF sel.raised THEN ExceptException(st, rq, dbok)
       ELSE IF sel.workers # {}
         THEN {[st |-> st, rq |-> NextAttempt([rq EXCEPT !.attempted = @ \cup {w}], w)]
                 : w \in sel.workers}
       ELSE giveUp("All workers unreachable", "All workers unreachable")
     ELSE IF tl.value <= 0 THEN
       IF sel.raised THEN ExceptException(st, rq, dbok)
       ELSE IF sel.workers # {}
         THEN {[st |-> IF dbok THEN [st EXCEPT !.sessions[rq.sid].worker_id = w] ELSE st,
                rq |-> NextAttempt([rq EXCEPT !.attempted = @ \cup {w}], w)]
                 : w \in sel.workers}
       ELSE giveUp("No available tokens on any worker", "No workers with available tokens")
     ELSE {[st |-> st, rq |-> Call([rq EXCEPT !.pc = "create"], "create_vm", rq.worker)]}

\* lines 334-373: the session becomes provisioning
RecordProvisioning(st, rq, cv, dbok) ==
  LET sid == rq.sid
      upd == [st EXCEPT !.sessions[sid].worker_route = cv.route,
                        !.sessions[sid].log_url = cv.log_url,
                        !.sessions[sid].status = "provisioning",
                        !.sessions[sid].checklist =
                           <<[key |-> "worker_action", done |-> TRUE,
                              worker_action |-> rq.action_to_use]>>]
  IN IF dbok
       THEN [st |-> Publish(Publish(upd, sid, ChecklistEvent(upd, sid)), sid, StatusEvent(upd, sid)),
             rq |-> [Done(rq, 202, None) EXCEPT !.created = TRUE, !.ret = sid,
                                                !.route = cv.route, !.log_url = cv.log_url]]
       ELSE [st |-> st, rq |-> Done(rq, 500, "Unable to update VPS session")]

\* lines 286-332 and after: create_vm has returned or raised
AfterCreate(st, rq, cv, dbok) ==
  CASE cv.kind = "ok" -> {RecordProvisioning(st, rq, cv, dbok)}
    [] cv.kind = "http" -> ExceptHTTP(st, rq, [code |-> cv.code, detail |-> cv.detail], dbok)
    [] OTHER -> ExceptException(st, rq, dbok)

\* variant: the explicit worker_action is ignored
ActionToUseDefault(worker_action, product_id) ==
  ProductRows[product_id].provision_action

\* line 213: worker_action or product.provision_action
ActionToUse(worker_action, product_id) ==
  IF worker_action # NoAction /\ worker_action # 0 THEN worker_action
  ELSE ProductRows[product_id].provision_action

\* POST /purchase-and-create down to the first await of purchase_and_create
PurchaseBegin(st, rq0, user, header, product_id, raw, vm, dbok) ==
  LET wa == ApiWorkerAction(raw, vm)
      key == Strip(header)
      rq == [rq0 EXCEPT !.user = user, !.key = key, !.product = product_id,
                        !.worker_action = wa.value]
      existing == FindIdempotent(st, user, key)
      \* answers given before anything of the request is looked up
      refuse(code, detail) == {[st |-> st, rq |-> Done(rq0, code, detail)]}
      reject(code, detail) ==
        {[st |-> st, rq |-> Done([rq0 EXCEPT !.user = user, !.key = key], code, detail)]}
      created(w) ==
        LET ins == InsertAndDebit(st, user, product_id, w, key, dbok)
            sid == ins.sid
            pub == Publish(Publish(ins.st, sid, ChecklistEvent(ins.st, sid)),
                           sid, StatusEvent(ins.st, sid))
            action == ActionToUse(wa.value, product_id)
        IN IF ~ins.ok
             THEN [st |-> ins.st,
                   rq |-> IF ins.wallet THEN Done(rq, 400, "Insufficient balance")
                          ELSE Done(rq, 500, "Unable to create VPS session")]
           ELSE [st |-> pub,
                 rq |-> NextAttempt([rq EXCEPT !.sid = sid, !.attempted = {w},
                                               !.action_to_use = action], w)]
  IN IF header = "" THEN refuse(400, "Missing Idempotency-Key header")
     ELSE IF ~wa.ok THEN refuse(400, "Invalid worker_action")
     ELSE IF key = "" THEN refuse(400, "Missing Idempotency-Key")
     ELSE IF existing # {}
       THEN {[st |-> st, rq |-> [Done(rq, 200, None) EXCEPT !.ret = e]] : e \in existing}
     ELSE IF ~LoadProduct(product_id) THEN reject(404, "Product unavailable")
     ELSE IF ~SufficientBalance(st, user, product_id)
       THEN reject(400, "Insufficient coin balance")
     ELSE IF SelectForProduct(st, product_id) = {}
       THEN reject(503, "No worker available for product")
     ELSE {created(w) : w \in SelectForProduct(st, product_id)}

(* ------------------------------ actions -------------------------------- *)
Apply(r, res) ==
  /\ sessions' = res.st.sessions
  /\ ledger' = res.st.ledger
  /\ balance' = res.st.balance
  /\ events' = res.st.events
  /\ req' = [req EXCEPT ![r] = res.rq]
  /\ UNCHANGED <<workerStatus, max_sessions, product_workers, selected, now, ops,
                 client, boot>>

\* a request arrives and runs to its first await (or to its answer)
Begin(r) ==
  /\ req[r].pc = "idle"
  /\ r > 1 => req[r - 1].pc # "idle"
  /\ \E user \in Users, header \in KeyHeaders, product_id \in ProductIds,
        raw \in RawActions, vm \in VmTypes, dbok \in BOOLEAN :
       \E res \in PurchaseBegin(Store, req[r], user, header, product_id, raw, vm, dbok) :
         Apply(r, res)

\* token_left answers
Probe(r) ==
  /\ req[r].pc = "probe"
  /\ \E reply \in TokenReplies, dbok \in BOOLEAN :
       \E res \in AfterProbe(Store, req[r], reply, dbok) : Apply(r, res)

\* create_vm answers
Create(r) ==
  /\ req[r].pc = "create"
  /\ \E resps \in CreateAnswers, transport \in BOOLEAN, dbok \in BOOLEAN :
       LET cv == CreateVm(req[r].worker, req[r].action_to_use, resps, transport)
       IN \E res \in AfterCreate(Store, req[r], cv, dbok) : Apply(r, res)

Next == \E r \in Reqs : Begin(r) \/ Probe(r) \/ Create(r)

Spec == Init /\ [][Next]_vars

(* ------------------- the selector over any registry -------------------- *)
\* bound: session rows in the registry
MaxLoad == 3
\* workers.max_sessions values (0: uncapped)
Caps == {0, 1, 2}
StatusOrder == <<"pending", "provisioning", "ready", "deleted">>
\* the k-th (worker, status) pair
KindWorker(k) == WorkerOrder[(k % Len(WorkerOrder)) + 1]
KindStatus(k) == StatusOrder[(k \div Len(WorkerOrder)) + 1]
NumKinds == Len(WorkerOrder) * Len(StatusOrder)

\* the ledger of purchased rows: a debit each, and the refund of a failed one
LedgerOf(rows) ==
  [i \in 1..Len(rows) |->
     LET debit == [user_id |-> rows[i].user_id, type |-> "vps.purchase",
                   amount |-> -ProductRows[rows[i].product_id].price_coins,
                   ref_id |-> i, meta |-> rows[i].product_id]
         credit == [user_id |-> rows[i].user_id, type |-> "vps.refund",
                    amount |-> ProductRows[rows[i].product_id].price_coins,
                    ref_id |-> i, meta |-> "worker_unreachable"]
     IN IF rows[i].status = "failed" THEN <<debit, credit>> ELSE <<debit>>]

\* a registry: any worker statuses, caps and association of p1, and up to
\* MaxLoad session rows of p1 (listed in one order, the selector only counts)
SelInit ==
  /\ now = 0
  /\ workerStatus \in [Workers -> {"active", "disabled"}]
  /\ max_sessions \in [Workers -> Caps]
  /\ \E S \in SUBSET Workers :
       product_workers = [p \in ProductIds |-> IF p = "p1" THEN S ELSE {}]
  /\ \E n \in 0..MaxLoad : \E f \in [1..n -> 0..(NumKinds - 1)] :
       /\ \A i \in 1..n : \A j \in 1..n : i < j => f[i] <= f[j]
       /\ sessions = [i \in 1..n |->
                        [InitialSession("u1", "p1", KindWorker(f[i]), ToString(i))
                           EXCEPT !.status = KindStatus(f[i])]]
  /\ ledger = LedgerOf(sessions)
  /\ events = [i \in 1..Len(sessions) |-> <<>>]
  /\ balance = [u \in Users |-> InitialBalance]
  /\ req = [r \in Reqs |-> IdleReq]
  /\ selected = NoSelection
  /\ ops = <<>>
  /\ client = IdleClient
  /\ boot = Started(None)

\* select_for_product(product_id) is called and returns
Select(product_id) ==
  LET found == SelectForProduct(Store, product_id)
  IN /\ \E w \in (IF found = {} THEN {None} ELSE found) :
          selected' = [op |-> "select", product |-> product_id, exclude |-> {},
                       raised |-> FALSE, worker |-> w]
     /\ UNCHANGED <<workerStatus, sessions, ledger, balance, events, req,
                    max_sessions, product_workers, now, ops, client, boot>>

\* select_for_product(product_id, exclude=S) is called the way vps.py calls it
Reselect(product_id, exclude) ==
  LET sel == SelectExclude(Store, product_id, exclude)
  IN /\ \E w \in (IF sel.workers = {} THEN {None} ELSE sel.workers) :
          selected' = [op |-> "exclude", product |-> product_id, exclude |-> exclude,
                       raised |-> sel.raised, worker |-> w]
     /\ UNCHANGED <<workerStatus, sessions, ledger, balance, events, req,
                    max_sessions, product_workers, now, ops, client, boot>>

SelProducts == {"p1", "p2"}
SelNext ==
  \E product_id \in SelProducts :
    \/ Select(product_id)
    \/ \E exclude \in (SUBSET Workers) \ {{}} : Reselect(product_id, exclude)

SelectorSpec == SelInit /\ [][SelNext]_vars

(* ------------------- VpsService: the life of a session ----------------- *)
UNREACHABLE_REFUND_COINS == 15
AUTO_TERMINATE_STATUSES == {"pending", "provisioning", "ready"}

\* variant: the horizon is not looked at on read
EnsureNotExpiredNever(st, sid, t) == st

\* _ensure_not_expired at time t
EnsureNotExpired(st, sid, t) ==
  LET row == st.sessions[sid]
  IN IF row.expires_at # NoTime /\ row.expires_at < t
        /\ row.status \notin {"expired", "deleted"}
       THEN [st EXCEPT !.sessions[sid].status = "expired"]
       ELSE st

\* get_session_for_user: 404 unless the row is there and is the user's
GetSessionForUser(st, session_id, user, t) ==
  IF session_id \notin 1..Len(st.sessions) \/ st.sessions[session_id].user_id # user
    THEN [found |-> FALSE, st |-> st]
    ELSE [found |-> TRUE, st |-> EnsureNotExpired(st, session_id, t)]

\* what a worker can answer to POST /stop/<route>
StopReplies == {"ok", "httperror", "notdict", "badjson", "transport"}
\* stop_vm as stop_session sees it: returned, raised HTTPException, raised another exception
StopVm(reply) ==
  CASE reply = "ok" -> "ok"
    [] reply \in {"httperror", "notdict"} -> "http"
    [] OTHER -> "exc"

\* stop_session lines 395-397: the remote stop is attempted
NeedsStopVm(worker_id, worker_route) == worker_id # None /\ worker_route # None

\* variant: a failure of the remote stop is raised again and nothing is written
MarkDeletedUnlessStopFailed(st, sid, remote, t, bus, dbok) ==
  IF remote \in {"http", "exc"} THEN [raised |-> TRUE, code |-> 502, st |-> st]
  ELSE IF ~dbok THEN [raised |-> TRUE, code |-> 500, st |-> st]
  ELSE [raised |-> FALSE, code |-> 200,
        st |-> [st EXCEPT !.sessions[sid].status = "deleted",
                          !.sessions[sid].expires_at = t,
                          !.sessions[sid].worker_route = None,
                          !.sessions[sid].log_url = NoUrl,
                          !.sessions[sid].rdp = None]]

\* stop_session lines 415-435, after the remote stop (remote: how it ended, or
\* "none" when it was not attempted): the row is deleted and cleared in one
\* commit (dbok = FALSE: the commit raises, which nothing in stop_session
\* catches: code 500), then the status event if there is a bus
MarkDeleted(st, sid, remote, t, bus, dbok) ==
  LET upd == [st EXCEPT !.sessions[sid].status = "deleted",
                        !.sessions[sid].expires_at = t,
                        !.sessions[sid].worker_route = None,
                        !.sessions[sid].log_url = NoUrl,
                        !.sessions[sid].rdp = None]
  IN IF ~dbok THEN [raised |-> TRUE, code |-> 500, st |-> st]
     ELSE [raised |-> FALSE, code |-> 200,
           st |-> IF bus THEN Publish(upd, sid, StatusEvent(upd, sid)) ELSE upd]

\* ledger entries of the unreachable refund of session sid
UnreachableEntries(st, sid) ==
  {i \in 1..Len(st.ledger[sid]) :
     /\ st.ledger[sid][i].type = "vps.auto_refund_unreachable"
     /\ st.ledger[sid][i].user_id = st.sessions[sid].user_id}

\* variant: the ledger is not looked up before the credit
RewardUnreachableAlways(st, sid, dbok) ==
  LET adj == AdjustBalance(st, st.sessions[sid].user_id, UNREACHABLE_REFUND_COINS,
                           "vps.auto_refund_unreachable", sid, "unreachable_ip_check")
  IN IF adj.ok /\ dbok THEN adj.st ELSE st

\* _reward_unreachable_session: one credit per session; a failure of the
\* credit or of its commit is rolled back and logged, not raised
RewardUnreachableSession(st, sid, dbok) ==
  LET adj == AdjustBalance(st, st.sessions[sid].user_id, UNREACHABLE_REFUND_COINS,
                           "vps.auto_refund_unreachable", sid, "unreachable_ip_check")
  IN IF UnreachableEntries(st, sid) # {} THEN st
     ELSE IF adj.ok /\ dbok THEN adj.st
     ELSE st

\* what GET /log/<route> can answer: a failure or a log text
LogTexts == {"", "booting", "IP: 10.0.0.5:8080", "ip:10.0.0.5", "IP: 10.0.0.5:0"}
FetchReplies == {"transport", "httperror"} \cup LogTexts
\* IP_PATTERN.search(log_text).group(1), None without a match
IpTarget(log_text) ==
  CASE log_text = "IP: 10.0.0.5:8080" -> "10.0.0.5:8080"
    [] log_text = "ip:10.0.0.5" -> "10.0.0.5"
    [] log_text = "IP: 10.0.0.5:0" -> "10.0.0.5:0"
    [] OTHER -> None
\* candidate_urls: the port is kept only when it is in 1..65535
CandidateUrls(target) ==
  CASE target = "10.0.0.5:8080" -> <<"http://10.0.0.5:8080", "https://10.0.0.5:8080">>
    [] OTHER -> <<"http://10.0.0.5", "https://10.0.0.5">>
\* what a POST to a candidate url can give: an exception, a response below 400
\* with or without text, a response of 400 or more
ProbeReplies == {"exc", "content", "empty", "error"}
\* lines 533-542: some candidate url answered below 400 with content
Reachable(replies) == \E i \in 1..Len(replies) : replies[i] = "content"
\* lines 545-553: the detail of the 410
GoneDetail(replies) ==
  IF \A i \in 1..Len(replies) : replies[i] = "exc"
    THEN "Session terminated because the remote IP is unreachable"
    ELSE "Session terminated because the remote IP did not respond with content"

(* ------------- api/vps.py: the session requests, step by step ---------- *)
\* bound: session requests in flight or answered
NumOps == 2
Ops == 1..NumOps
IdleOp ==
  [pc |-> "idle", kind |-> None, user |-> None, sid |-> 0, status |-> None,
   remote |-> "none", todo |-> <<>>, cleaned |-> 0, bus |-> FALSE,
   max_age |-> NoTime, warned |-> {}, calls |-> <<>>,
   code |-> 0, detail |-> None, seen |-> None, ret |-> 0]

\* the request is answered; the loaded row is dropped with the request
Finished(op, code, detail) ==
  [op EXCEPT !.pc = "done", !.code = code, !.detail = detail, !.status = None, !.todo = <<>>]

\* GET /sessions/{session_id}: the payload carries the status (seen)
GetSession(st, op0, user, session_id, t) ==
  LET op == [op0 EXCEPT !.kind = "get", !.user = user, !.sid = session_id]
      g == GetSessionForUser(st, session_id, user, t)
  IN IF ~g.found THEN [st |-> st, op |-> Finished(op, 404, "Session not found")]
     ELSE [st |-> g.st,
           op |-> [Finished(op, 200, None) EXCEPT !.seen = g.st.sessions[session_id].status]]

\* stop_session from its commit on, as the stop endpoint runs it (no event bus)
StopEnd(st, op0, remote, t, dbok) ==
  LET op == [op0 EXCEPT !.remote = remote]
      m == MarkDeleted(st, op.sid, remote, t, FALSE, dbok)
  IN [st |-> m.st,
      op |-> IF m.raised THEN Finished(op, m.code, "Internal Server Error")
             ELSE [Finished(op, 200, None) EXCEPT !.seen = m.st.sessions[op.sid].status]]

\* POST /sessions/{session_id}/stop down to the await of stop_vm, or to the answer
StopBegin(st, op0, user, session_id, t, dbok) ==
  LET op == [op0 EXCEPT !.kind = "stop", !.user = user, !.sid = session_id]
      g == GetSessionForUser(st, session_id, user, t)
      row == g.st.sessions[session_id]
  IN IF ~g.found THEN [st |-> st, op |-> Finished(op, 404, "Session not found")]
     ELSE IF NeedsStopVm(row.worker_id, row.worker_route)
       THEN [st |-> g.st, op |-> [op EXCEPT !.pc = "stop_vm"]]
     ELSE StopEnd(g.st, op, "none", t, dbok)

\* GET /sessions/{session_id}/log down to the await of fetch_log; the row the
\* request holds keeps the status it was loaded with
LogBegin(st, op0, user, session_id, t) ==
  LET op == [op0 EXCEPT !.kind = "log", !.user = user, !.sid = session_id]
      g == GetSessionForUser(st, session_id, user, t)
      row == g.st.sessions[session_id]
  IN IF ~g.found THEN [st |-> st, op |-> Finished(op, 404, "Session not found")]
     ELSE IF ~NeedsStopVm(row.worker_id, row.worker_route)
       THEN [st |-> g.st, op |-> Finished(op, 404, "Log not available")]
     ELSE [st |-> g.st, op |-> [op EXCEPT !.pc = "fetch_log", !.status = row.status]]

\* fetch_log has answered; with a log text _verify_remote_access runs down to
\* the await of stop_vm (probes: the answers of the candidate urls, which
\* touch nothing the requests share)
LogFetched(st, op, reply, probes) ==
  IF reply = "transport" THEN [st |-> st, op |-> Finished(op, 502, "Unable to fetch log")]
  ELSE IF reply = "httperror"
    THEN [st |-> st, op |-> Finished(op, 502, "Unable to fetch worker log")]
  ELSE IF \/ op.status \in {"deleted", "expired"}
          \/ IpTarget(reply) = None
          \/ Reachable(probes)
    THEN [st |-> st, op |-> [Finished(op, 200, None) EXCEPT !.seen = reply]]
  ELSE [st |-> st, op |-> [op EXCEPT !.pc = "log_stop", !.detail = GoneDetail(probes)]]

\* lines 543-563: stop_session has the answer of stop_vm, then the credit and the 410
LogStopped(st, op0, reply, t, dbok, credit_ok) ==
  LET op == [op0 EXCEPT !.remote = StopVm(reply)]
      m == MarkDeleted(st, op.sid, StopVm(reply), t, FALSE, dbok)
  IN IF m.raised THEN [st |-> st, op |-> Finished(op, m.code, "Internal Server Error")]
     ELSE [st |-> RewardUnreachableSession(m.st, op.sid, credit_ok),
           op |-> Finished(op, 410, op.detail)]

\* cleanup_expired_sessions: the rows older than the cutoff in a status of
\* AUTO_TERMINATE_STATUSES, in id order
RECURSIVE StaleRows(_, _, _)
StaleRows(st, cutoff, n) ==
  IF n = 0 THEN <<>>
  ELSE LET rest == StaleRows(st, cutoff, n - 1)
       IN IF st.sessions[n].created_at < cutoff
             /\ st.sessions[n].status \in AUTO_TERMINATE_STATUSES
            THEN Append(rest, n) ELSE rest

\* lines 476-490: one round of the loop once stop_session has returned or
\* raised: the session is counted, or the failure is logged and rolled back
Counted(op, sid, raised) ==
  [op EXCEPT !.todo = Tail(@),
             !.cleaned = @ + (IF raised THEN 0 ELSE 1),
             !.warned = IF raised THEN @ \cup {sid} ELSE @]

\* variant: the first failure ends the loop
RECURSIVE CleanupRunAbort(_, _, _, _)
CleanupRunAbort(st, op, t, fails) ==
  IF op.todo = <<>> THEN [st |-> st, op |-> Finished(op, 200, None)]
  ELSE LET sid == Head(op.todo)
           m == MarkDeleted(st, sid, "none", t, op.bus, sid \notin fails)
       IN IF NeedsStopVm(st.sessions[sid].worker_id, st.sessions[sid].worker_route)
            THEN [st |-> st, op |-> [op EXCEPT !.pc = "cleanup_stop"]]
          ELSE IF m.raised THEN [st |-> st, op |-> Finished(Counted(op, sid, TRUE), 200, None)]
          ELSE CleanupRunAbort(m.st, Counted(op, sid, FALSE), t, fails)

\* the loop of cleanup_expired_sessions down to the next await of stop_vm
\* (fails: the sessions whose commit raises); a stop_session that raises is
\* rolled back and the loop goes on
RECURSIVE CleanupRun(_, _, _, _)
CleanupRun(st, op, t, fails) ==
  IF op.todo = <<>> THEN [st |-> st, op |-> Finished(op, 200, None)]
  ELSE LET sid == Head(op.todo)
           m == MarkDeleted(st, sid, "none", t, op.bus, sid \notin fails)
       IN IF NeedsStopVm(st.sessions[sid].worker_id, st.sessions[sid].worker_route)
            THEN [st |-> st, op |-> [op EXCEPT !.pc = "cleanup_stop"]]
          ELSE CleanupRun(m.st, Counted(op, sid, m.raised), t, fails)

\* cleanup_expired_sessions(max_age) down to its first await (bus: the service
\* was built with an event bus, which stop_session then publishes on)
CleanupBegin(st, op0, max_age, t, bus, fails) ==
  LET op == [op0 EXCEPT !.kind = "cleanup", !.bus = bus, !.max_age = max_age,
                        !.todo = StaleRows(st, t - max_age, Len(st.sessions))]
  IN CleanupRun(st, op, t, fails)

\* stop_vm has answered for the row the loop is at
CleanupStopped(st, op, reply, t, fails) ==
  LET sid == Head(op.todo)
      m == MarkDeleted(st, sid, StopVm(reply), t, op.bus, sid \notin fails)
  IN CleanupRun(m.st, [Counted(op, sid, m.raised) EXCEPT !.remote = StopVm(reply)],
                t, fails)

\* POST /purchase-and-create with the key of an existing row of the user
PurchaseReplay(st, op0, sid) ==
  LET row == st.sessions[sid]
      op == [op0 EXCEPT !.kind = "purchase", !.user = row.user_id, !.sid = sid]
  IN {[st |-> res.st, op |-> [Finished(op, res.rq.code, res.rq.detail)
                               EXCEPT !.ret = res.rq.ret, !.calls = res.rq.calls]]
        : res \in PurchaseBegin(st, IdleReq, row.user_id, row.idempotency_key,
                                row.product_id, NoAction, "", TRUE)}

(* ----------------------- the session requests as actions --------------- *)
\* bounds: rows at the start, and the last hour of the clock
MaxRows == 2
MaxNow == 6
\* max_age values of a cleanup, in hours
MaxAges == {0, SESSION_HOURS}

\* row i as purchase_and_create leaves it (pending while create_vm is awaited,
\* provisioning, failed) or as the external update to ready leaves it
RowShapes == {"pending", "provisioning", "ready", "failed"}
LifeRow(i, shape) ==
  LET base == [InitialSession("u1", "p1", "w1", ToString(i))
                 EXCEPT !.created_at = 0, !.expires_at = SESSION_HOURS]
      made == [base EXCEPT !.status = shape, !.worker_route = "r1",
                           !.log_url = NormalizeLogUrl(BaseUrl("w1"), "/log/r1"),
                           !.checklist = <<[key |-> "worker_action", done |-> TRUE,
                                            worker_action |-> ActionToUse(NoAction, "p1")]>>]
  IN CASE shape = "pending" -> base
       [] shape = "failed" -> [base EXCEPT !.status = "failed"]
       [] shape = "ready" -> [made EXCEPT !.rdp = "rdp1"]
       [] OTHER -> made

\* an hour before the horizon of rows purchased at hour 0
LifeInit ==
  /\ now = SESSION_HOURS - 1
  /\ workerStatus = [w \in Workers |-> "active"]
  /\ max_sessions = MaxSessions
  /\ product_workers = [p \in ProductIds |-> ProductWorkers(p)]
  /\ \E n \in 1..MaxRows : \E shapes \in [1..n -> RowShapes] :
       sessions = [i \in 1..n |-> LifeRow(i, shapes[i])]
  /\ ledger = LedgerOf(sessions)
  /\ events = [i \in 1..Len(sessions) |-> <<>>]
  /\ balance = [u \in Users |-> InitialBalance]
  /\ req = [r \in Reqs |-> IdleReq]
  /\ selected = NoSelection
  /\ ops = [o \in Ops |-> IdleOp]
  /\ client = IdleClient
  /\ boot = Started(None)

ApplyOp(o, res) ==
  /\ sessions' = res.st.sessions
  /\ ledger' = res.st.ledger
  /\ balance' = res.st.balance
  /\ events' = res.st.events
  /\ ops' = [ops EXCEPT ![o] = res.op]
  /\ UNCHANGED <<workerStatus, req, max_sessions, product_workers, selected, now,
                 client, boot>>

\* a request can arrive
Arrives(o) == ops[o].pc = "idle" /\ (o > 1 => ops[o - 1].pc # "idle")
\* the ids a client can name: the rows and one id without a row
SomeIds == 1..(Len(sessions) + 1)

Get(o) ==
  /\ Arrives(o)
  /\ \E user \in Users, session_id \in SomeIds :
       ApplyOp(o, GetSession(Store, ops[o], user, session_id, now))

Stop(o) ==
  /\ Arrives(o)
  /\ \E user \in Users, session_id \in SomeIds, dbok \in BOOLEAN :
       ApplyOp(o, StopBegin(Store, ops[o], user, session_id, now, dbok))

StopAnswered(o) ==
  /\ ops[o].pc = "stop_vm"
  /\ \E reply \in StopReplies, dbok \in BOOLEAN :
       ApplyOp(o, StopEnd(Store, ops[o], StopVm(reply), now, dbok))

Log(o) ==
  /\ Arrives(o)
  /\ \E user \in Users, session_id \in SomeIds :
       ApplyOp(o, LogBegin(Store, ops[o], user, session_id, now))

LogAnswered(o) ==
  /\ ops[o].pc = "fetch_log"
  /\ \E reply \in FetchReplies, probes \in [1..2 -> ProbeReplies] :
       ApplyOp(o, LogFetched(Store, ops[o], reply, probes))

LogStopAnswered(o) ==
  /\ ops[o].pc = "log_stop"
  /\ \E reply \in StopReplies, dbok \in BOOLEAN, credit_ok \in BOOLEAN :
       ApplyOp(o, LogStopped(Store, ops[o], reply, now, dbok, credit_ok))

Cleanup(o) ==
  /\ Arrives(o)
  /\ \E max_age \in MaxAges, bus \in BOOLEAN, fails \in SUBSET (1..Len(sessions)) :
       ApplyOp(o, CleanupBegin(Store, ops[o], max_age, now, bus, fails))

CleanupStopAnswered(o) ==
  /\ ops[o].pc = "cleanup_stop"
  /\ \E reply \in StopReplies, fails \in SUBSET (1..Len(sessions)) :
       ApplyOp(o, CleanupStopped(Store, ops[o], reply, now, fails))

Replay(o) ==
  /\ Arrives(o)
  /\ \E sid \in 1..Len(sessions) : \E res \in PurchaseReplay(Store, ops[o], sid) :
       ApplyOp(o, res)

\* an hour passes
Tick ==
  /\ now < MaxNow
  /\ now' = now + 1
  /\ UNCHANGED <<workerStatus, sessions, ledger, balance, events, req,
                 max_sessions, product_workers, selected, ops, client, boot>>

LifeNext ==
  \/ \E o \in Ops :
       \/ Get(o) \/ Stop(o) \/ StopAnswered(o)
       \/ Log(o) \/ LogAnswered(o) \/ LogStopAnswered(o)
       \/ Cleanup(o) \/ CleanupStopAnswered(o)
       \/ Replay(o)
  \/ Tick

LifeSpec == LifeInit /\ [][LifeNext]_vars

(* ------------ purchases and session requests side by side -------------- *)
\* the database is empty and every worker active
BrokerInit ==
  /\ now = 0
  /\ workerStatus = [w \in Workers |-> "active"]
  /\ sessions = <<>>
  /\ ledger = <<>>
  /\ balance = [u \in Users |-> InitialBalance]
  /\ events = <<>>
  /\ req = [r \in Reqs |-> IdleReq]
  /\ max_sessions = MaxSessions
  /\ product_workers = [p \in ProductIds |-> ProductWorkers(p)]
  /\ selected = NoSelection
  /\ ops = [o \in Ops |-> IdleOp]
  /\ client = IdleClient
  /\ boot = Started(None)

\* one purchase and one session request at a time
BrokerReqs == {1}
BrokerOps == {1}

BrokerNext ==
  \/ \E r \in BrokerReqs : Begin(r) \/ Probe(r) \/ Create(r)
  \/ \E o \in BrokerOps :
       \/ Get(o) \/ Stop(o) \/ StopAnswered(o)
       \/ Log(o) \/ LogAnswered(o) \/ LogStopAnswered(o)
       \/ Cleanup(o) \/ CleanupStopAnswered(o)
  \/ Tick

BrokerSpec == BrokerInit /\ [][BrokerNext]_vars

(* ---------------- WorkerClient.create_vm, POST by POST ------------------ *)
\* what a worker can answer to one POST /vm-loso
PostResponses ==
  FinalResponses \cup {[status |-> 429, detail |-> d, log |-> "missing"] : d \in WorkerDetails}
\* the action argument of create_vm (0: not one of 1, 2, 3)
ClientActions == {0, 1, 2, 3}
\* the answers received, continued by the last of them
Padded(seen) ==
  [i \in 1..MaxAttempts |-> IF i <= Len(seen) THEN seen[i] ELSE seen[Len(seen)]]

\* variant: the limit is tested one attempt late
ResendOneMore(response, attempt) ==
  response.status = 429 /\ attempt + 1 <= MaxAttempts

\* lines 81-86: the response is a 429 and the attempts are not used up, so
\* create_vm sleeps and posts again
Resend(response, attempt) ==
  response.status = 429 /\ attempt + 1 < MaxAttempts

\* lines 71-80: create_vm checks the action and sends its first POST
CreateVmCalled(w, action) ==
  IF action \notin {1, 2, 3}
    THEN [IdleClient EXCEPT !.pc = "done", !.worker = w, !.action = action,
                            !.result = OtherError]
  ELSE [IdleClient EXCEPT !.pc = "posting", !.worker = w, !.action = action, !.posts = 1]

\* lines 80-141: a POST has answered (transport = FALSE: it raised)
CreateVmAnswered(c, response, transport) ==
  IF ~transport THEN [c EXCEPT !.pc = "done", !.result = OtherError]
  ELSE
    LET seen == Append(c.seen, response)
    IN IF Resend(response, c.attempt)
         THEN [c EXCEPT !.seen = seen, !.attempt = @ + 1, !.posts = @ + 1]
       ELSE [c EXCEPT !.seen = seen,
                      !.attempt = IF response.status = 429 THEN @ + 1 ELSE @,
                      !.pc = "done",
                      !.result = CreateVm(c.worker, c.action, Padded(seen), TRUE)]

ClientInit ==
  /\ workerStatus = [w \in Workers |-> "active"]
  /\ sessions = <<>>
  /\ ledger = <<>>
  /\ balance = [u \in Users |-> InitialBalance]
  /\ events = <<>>
  /\ req = [r \in Reqs |-> IdleReq]
  /\ max_sessions = MaxSessions
  /\ product_workers = [p \in ProductIds |-> ProductWorkers(p)]
  /\ selected = NoSelection
  /\ now = 0
  /\ ops = <<>>
  /\ client = IdleClient
  /\ boot = Started(None)

ClientStep(c) ==
  /\ client' = c
  /\ UNCHANGED <<workerStatus, sessions, ledger, balance, events, req,
                 max_sessions, product_workers, selected, now, ops, boot>>

\* create_vm(action, worker) is called
CallCreateVm ==
  /\ client.pc = "idle"
  /\ \E w \in Workers, action \in ClientActions : ClientStep(CreateVmCalled(w, action))

\* the worker answers the POST in flight
PostAnswered ==
  /\ client.pc = "posting"
  /\ \E response \in PostResponses, transport \in BOOLEAN :
       ClientStep(CreateVmAnswered(client, response, transport))

ClientNext == CallCreateVm \/ PostAnswered

ClientSpec == ClientInit /\ [][ClientNext]_vars

(* ---------------- the bootstrap secret across restarts ------------------ *)
\* bound: calls made on the bootstrap record, the first seed included
MaxBootOps == 4

BootInit ==
  /\ workerStatus = [w \in Workers |-> "active"]
  /\ sessions = <<>>
  /\ ledger = <<>>
  /\ balance = [u \in Users |-> InitialBalance]
  /\ events = <<>>
  /\ req = [r \in Reqs |-> IdleReq]
  /\ max_sessions = MaxSessions
  /\ product_workers = [p \in ProductIds |-> ProductWorkers(p)]
  /\ selected = NoSelection
  /\ now = 0
  /\ ops = <<>>
  /\ client = IdleClient
  /\ boot \in {Started(pw) : pw \in Passwords}

BootStep(record, entry) ==
  /\ Len(boot.log) < MaxBootOps
  /\ boot' = [record |-> record, log |-> Append(boot.log, entry)]
  /\ UNCHANGED <<workerStatus, sessions, ledger, balance, events, req,
                 max_sessions, product_workers, selected, now, ops, client>>

\* the application restarts: seed_defaults runs with the password now configured
Reseed(default_password) ==
  BootStep(SeedDefaults(boot.record, default_password),
           [op |-> "seed", arg |-> default_password, ret |-> FALSE])

\* bootstrap_secret_valid(db, secret) is called
CheckSecret(secret) ==
  BootStep(boot.record,
           [op |-> "valid", arg |-> secret, ret |-> BootstrapSecretValid(boot.record, secret)])

\* mark_bootstrap_consumed(db) is called
Consume ==
  BootStep(MarkBootstrapConsumed(boot.record), [op |-> "mark", arg |-> None, ret |-> FALSE])

BootNext ==
  \/ \E default_password \in Passwords : Reseed(default_password)
  \/ \E secret \in Secrets : CheckSecret(secret)
  \/ Consume

BootSpec == BootInit /\ [][BootNext]_vars

(* =========================== properties ================================ *)
SessionIds == 1..Len(sessions)
EntriesOf(L, sid, type) == {i \in 1..Len(L[sid]) : L[sid][i].type = type}
Price(sid) == ProductRows[sessions[sid].product_id].price_coins
OtherActiveWorkers(r) == {w \in Workers \ req[r].attempted : workerStatus[w] = "active"}
Called(r, op) == \E i \in 1..Len(req[r].calls) : req[r].calls[i].op = op

RECURSIVE SumAmounts(_, _)
SumAmounts(entries, user) ==
  IF entries = <<>> THEN 0
  ELSE (IF Head(entries).user_id = user THEN Head(entries).amount ELSE 0)
       + SumAmounts(Tail(entries), user)

RECURSIVE LedgerTotal(_, _, _)
LedgerTotal(L, n, user) ==
  IF n = 0 THEN 0 ELSE SumAmounts(L[n], user) + LedgerTotal(L, n - 1, user)

\* one debit of the price for session sid in ledger L
OneDebit(L, sid) ==
  /\ Cardinality(EntriesOf(L, sid, "vps.purchase")) = 1
  /\ \A i \in EntriesOf(L, sid, "vps.purchase") :
       L[sid][i].amount = -Price(sid) /\ L[sid][i].user_id = sessions[sid].user_id

\* one refund of the price for session sid in ledger L
OneRefund(L, sid) ==
  /\ Cardinality(EntriesOf(L, sid, "vps.refund")) = 1
  /\ \A i \in EntriesOf(L, sid, "vps.refund") :
       L[sid][i].amount = Price(sid) /\ L[sid][i].user_id = sessions[sid].user_id

\* C1: every session in status "failed" has exactly one vps.purchase debit and
\* exactly one vps.refund credit of the product price referencing it.
C1_FailedSessionPaired ==
  \A sid \in SessionIds :
    sessions[sid].status = "failed" => OneDebit(ledger, sid) /\ OneRefund(ledger, sid)

C1_Witness ==
  \E r \in Reqs : /\ req[r].pc = "done" /\ req[r].sid # 0
                  /\ sessions[req[r].sid].status = "failed"

\* answers that report a database failure of the broker itself
DbFailures == {"Unable to refund VPS purchase", "Unable to update VPS session",
               "Unable to create VPS session"}

\* C2: when the only eligible worker reports zero capacity (and the database
\* works) the purchase ends with 503, the debit is refunded and the session
\* is not left non-terminal.
C2_ZeroCapacityIs503 ==
  \A r \in Reqs :
    ( /\ req[r].pc = "done" /\ req[r].sid # 0
      /\ req[r].probe = "value" /\ req[r].tokens_left = 0
      /\ OtherActiveWorkers(r) = {}
      /\ req[r].detail \notin DbFailures )
    => /\ req[r].code = 503
       /\ OneRefund(ledger, req[r].sid)
       /\ sessions[req[r].sid].status \notin ACTIVE_STATUSES

\* C3: a purchase that ends in error after its debit was committed has
\* credited the product price back (stated here for the exits that are not
\* database failures of the broker; the claim covers those too).
C3_ErrorAfterDebitRefunded ==
  \A r \in Reqs :
    ( /\ req[r].pc = "done" /\ req[r].sid # 0 /\ req[r].code # 202
      /\ req[r].detail \notin DbFailures )
    => OneRefund(ledger, req[r].sid)

\* C4: a purchase repeating the (user, key) of a purchase that returned a
\* created session returns that session with 200 and created = FALSE, and
\* records nothing: the wallet holds the one debit of the first call.
C4_ReplayReturnsSame ==
  [][\A r \in Reqs :
       ( /\ req[r].pc = "idle" /\ req'[r].pc # "idle" /\ req'[r].key # None
         /\ \E q \in Reqs : /\ req[q].created
                            /\ req[q].user = req'[r].user /\ req[q].key = req'[r].key )
       => /\ req'[r].pc = "done" /\ req'[r].code = 200 /\ ~req'[r].created
          /\ \E q \in Reqs : /\ req[q].created
                             /\ req[q].user = req'[r].user /\ req[q].key = req'[r].key
                             /\ req'[r].ret = req[q].ret
          /\ UNCHANGED <<sessions, ledger, balance>>
          /\ OneDebit(ledger, req'[r].ret)]_vars

C4_Witness ==
  \E r, q \in Reqs :
    /\ r # q /\ req[q].created /\ req[r].code = 200
    /\ req[r].ret = req[q].ret /\ req[r].user = req[q].user /\ req[r].key = req[q].key

\* the session rows of (user, key)
RowsOf(user, key) ==
  {i \in SessionIds : sessions[i].user_id = user /\ sessions[i].idempotency_key = key}

\* C5: in every state, whatever the interleaving of the requests, there is at
\* most one session row per (user, key) and at most one vps.purchase debit
\* for it.
C5_OneRowPerKey ==
  \A u \in Users, h \in KeyHeaders :
    /\ Cardinality(RowsOf(u, Strip(h))) <= 1
    /\ \A i \in RowsOf(u, Strip(h)) :
         Cardinality(EntriesOf(ledger, i, "vps.purchase")) <= 1

\* a replay answered while the first request of the key is still in flight
C5_Witness ==
  \E r, q \in Reqs :
    /\ r # q /\ req[q].pc \in {"probe", "create"}
    /\ req[r].pc = "done" /\ req[r].code = 200 /\ req[r].ret = req[q].sid
    /\ Cardinality(RowsOf(req[q].user, req[q].key)) = 1

\* every session row has its one vps.purchase debit of the product price
C6_RowAndDebit ==
  /\ Len(ledger) = Len(sessions)
  /\ \A sid \in SessionIds : OneDebit(ledger, sid)

\* C6: a session row exists exactly with its one vps.purchase debit of the
\* product price, and a purchase whose row-and-debit transaction fails leaves
\* neither.
C6_AtomicDebit ==
  [][ /\ C6_RowAndDebit'
      /\ \A r \in Reqs :
           (req[r].pc = "idle" /\ req'[r].detail = "Unable to create VPS session")
           => UNCHANGED <<sessions, ledger, balance, events>> /\ req'[r].sid = 0 ]_vars

C6_Witness ==
  /\ Len(sessions) >= 1
  /\ \E r \in Reqs : req[r].detail = "Unable to create VPS session"

\* the answers of a purchase rejected for a client error or for want of a worker
Rejections ==
  {<<400, "Missing Idempotency-Key header">>, <<400, "Missing Idempotency-Key">>,
   <<400, "Invalid worker_action">>,
   <<404, "Product unavailable">>, <<400, "Insufficient coin balance">>,
   <<503, "No worker available for product">>}

\* C7: a purchase rejected for a client error or for want of a worker leaves
\* rows, ledger, balances and events as they were and calls no worker; a
\* purchase is only accepted with a key, an active product, the price in the
\* wallet and an active worker.
C7_RejectionNoEffect ==
  [][\A r \in Reqs :
       /\ ( /\ req[r].pc = "idle" /\ req'[r].pc = "done"
            /\ <<req'[r].code, req'[r].detail>> \in Rejections )
          => /\ UNCHANGED <<sessions, ledger, balance, events>>
             /\ req'[r].calls = <<>> /\ req'[r].sid = 0
       /\ (req[r].pc = "idle" /\ req'[r].sid # 0)
          => /\ req'[r].key \notin {"", None}
             /\ req'[r].product \in DOMAIN ProductRows
             /\ ProductRows[req'[r].product].is_active
             /\ balance[req'[r].user] >= ProductRows[req'[r].product].price_coins
             /\ workerStatus[req'[r].worker] = "active"]_vars

C7_Witness ==
  /\ \E r \in Reqs : req[r].pc = "done" /\ req[r].detail = "Insufficient coin balance"
  /\ \E r \in Reqs : req[r].pc = "done" /\ req[r].detail = "Product unavailable"

\* every balance is the initial balance plus the user's ledger entries
BalanceMatchesLedger ==
  \A u \in Users : balance[u] = InitialBalance + LedgerTotal(ledger, Len(ledger), u)

\* C8: a purchase that succeeds leaves its session provisioning with the
\* route and log url create_vm returned, one debit and no credit in the
\* ledger (the balance being the initial one plus the ledger), and a checklist
\* of one worker_action entry: the explicit worker_action, else the product's.
C8_SuccessRecorded ==
  [][\A r \in Reqs :
       (req[r].pc = "create" /\ req'[r].code = 202)
       => LET sid == req[r].sid
              row == sessions'[sid]
              expected == IF req[r].worker_action # NoAction THEN req[r].worker_action
                          ELSE ProductRows[req[r].product].provision_action
          IN /\ req'[r].created /\ req'[r].ret = sid
             /\ row.status = "provisioning"
             /\ row.worker_route = req'[r].route /\ row.worker_route # None
             /\ row.log_url = req'[r].log_url /\ row.log_url # NoUrl
             /\ Len(ledger'[sid]) = 1 /\ OneDebit(ledger', sid)
             /\ BalanceMatchesLedger'
             /\ balance'[req[r].user] = balance[req[r].user]
             /\ Len(row.checklist) = 1
             /\ row.checklist[1].key = "worker_action"
             /\ row.checklist[1].worker_action = expected]_vars

C8_Witness ==
  \E r \in Reqs :
    /\ req[r].code = 202 /\ req[r].worker_action = 2
    /\ sessions[req[r].sid].status = "provisioning"
    /\ balance[req[r].user] = InitialBalance - Price(req[r].sid)

\* C9: a worker whose token_left answer is -1 (unknown) is still sent
\* create_vm.
C9_UnknownCapacityTried ==
  \A r \in Reqs :
    ( /\ req[r].probe = "value" /\ req[r].tokens_left = -1
      /\ req[r].detail \notin DbFailures )
    => Called(r, "create_vm")

\* C10: when create_vm fails with the busy signal or a no-tokens detail before
\* the third attempt and another untried active worker exists, the purchase
\* goes on with that worker: nothing is refunded and no error is returned.
C10_BusyFailsOver ==
  [][\A r \in Reqs :
       ( /\ req[r].pc = "create" /\ req'[r].pc # "create"
         /\ \/ req'[r].exc.code = 503
            \/ Contains(req'[r].exc.detail, "No available tokens")
         /\ req[r].attempt < MAX_WORKER_RETRIES
         /\ OtherActiveWorkers(r) # {}
         /\ req'[r].detail \notin DbFailures )
       => /\ req'[r].pc = "probe"
          /\ req'[r].worker \in OtherActiveWorkers(r)
          /\ ledger' = ledger]_vars

(* ---------------------- properties of the selector --------------------- *)
\* workers the selection is made among: the product's active workers, else
\* every active worker
Eligible(product_id) ==
  LET own == {w \in product_workers[product_id] : workerStatus[w] = "active"}
  IN IF own # {} THEN own ELSE {w \in Workers : workerStatus[w] = "active"}
\* sessions in pending, provisioning or ready assigned to w
Load(w) ==
  Cardinality({i \in SessionIds :
                 sessions[i].worker_id = w
                 /\ sessions[i].status \in {"pending", "provisioning", "ready"}})
AtCap(w) == max_sessions[w] > 0 /\ Load(w) >= max_sessions[w]
BelowCap(product_id) == {w \in Eligible(product_id) : ~AtCap(w)}
LeastLoaded(S) == {w \in S : \A v \in S : Load(w) <= Load(v)}

\* C11: a re-selection with an exclusion set is accepted and returns neither
\* a worker of the set nor a worker that is not active.
C11_ExcludeHonoured ==
  selected.op = "exclude" =>
    /\ ~selected.raised
    /\ selected.worker \notin selected.exclude
    /\ selected.worker # None => workerStatus[selected.worker] = "active"

\* C12: the selector never returns a worker that has reached its positive
\* max_sessions cap while another candidate is below its cap or uncapped.
C12_NoCappedWhileHeadroom ==
  (selected.op = "select" /\ selected.worker # None /\ AtCap(selected.worker))
    => BelowCap(selected.product) = {}

\* a capped worker with fewer sessions was passed over for one with headroom
C12_Witness ==
  /\ selected.op = "select" /\ selected.worker # None
  /\ \E v \in Eligible(selected.product) : AtCap(v) /\ Load(v) < Load(selected.worker)

\* C13: with a candidate below its cap, the selector returns a below-cap
\* candidate of minimum active count, and each such candidate can be returned.
C13_LeastLoadedAnyOf ==
  \A product_id \in SelProducts :
    BelowCap(product_id) # {} =>
      /\ (selected.op = "select" /\ selected.product = product_id)
            => selected.worker \in LeastLoaded(BelowCap(product_id))
      /\ LeastLoaded(BelowCap(product_id)) \subseteq SelectForProduct(Store, product_id)

\* two equally loaded workers, and the one the query lists last was returned
C13_Witness ==
  /\ selected.op = "select"
  /\ Cardinality(LeastLoaded(BelowCap(selected.product))) = 2
  /\ selected.worker = WorkerOrder[Len(WorkerOrder)]
  /\ Load(selected.worker) > 0

\* C14: the selector returns none only when no worker at all is active; when
\* every candidate is at its cap it returns a candidate of least active count.
C14_NoneOnlyWhenNoWorker ==
  selected.op = "select" =>
    /\ selected.worker = None <=> \A w \in Workers : workerStatus[w] # "active"
    /\ (selected.worker # None /\ BelowCap(selected.product) = {})
         => selected.worker \in LeastLoaded(Eligible(selected.product))

\* a worker at its cap was returned for a product it is not associated with
C14_Witness ==
  /\ selected.op = "select" /\ selected.worker # None
  /\ AtCap(selected.worker)
  /\ selected.worker \notin product_workers[selected.product]
  /\ \E v \in Eligible(selected.product) : Load(v) > Load(selected.worker)

(* ------------------ properties of the life of a session ---------------- *)
Terminal == {"failed", "expired", "deleted"}
NonTerminal == {"pending", "provisioning", "ready"}
\* request o is answered in this step
Answered(o, kind) == ops[o].pc # "done" /\ ops'[o].pc = "done" /\ ops'[o].kind = kind
Cleared(row) == row.worker_route = None /\ row.log_url = NoUrl /\ row.rdp = None

\* C15: once the status of a session is failed, expired or deleted, no request
\* (purchase replay, get, stop, log, cleanup) changes it.
C15_TerminalStays ==
  [][\A sid \in SessionIds :
       sessions[sid].status \in Terminal => sessions'[sid].status = sessions[sid].status]_vars

\* C16: a get of a non-terminal session past its expires_at returns and
\* persists "expired", whether or not a cleanup has run; a get of a session
\* whose expires_at has not passed leaves the row as it is.
C16_LazyExpiry ==
  [][\A o \in Ops :
       (Answered(o, "get") /\ ops'[o].code = 200) =>
         LET row == sessions[ops'[o].sid]
         IN /\ (row.expires_at < now /\ row.status \in NonTerminal)
                 => /\ ops'[o].seen = "expired"
                    /\ sessions'[ops'[o].sid].status = "expired"
            /\ row.expires_at >= now
                 => /\ ops'[o].seen = row.status
                    /\ sessions'[ops'[o].sid] = row]_vars

\* a get returned "expired" and no cleanup was ever started
C16_Witness ==
  /\ \E o \in Ops : /\ ops[o].kind = "get" /\ ops[o].pc = "done" /\ ops[o].code = 200
                     /\ ops[o].seen = "expired"
                     /\ sessions[ops[o].sid].status = "expired"
  /\ \A o \in Ops : ops[o].kind # "cleanup"

\* C17: whatever log requests ran and however they interleaved, the ledger
\* holds at most one vps.auto_refund_unreachable entry per session, of 15
\* coins, and the balance was credited once for each.
C17_OneUnreachableRefund ==
  /\ \A sid \in SessionIds :
       /\ Cardinality(EntriesOf(ledger, sid, "vps.auto_refund_unreachable")) <= 1
       /\ \A i \in EntriesOf(ledger, sid, "vps.auto_refund_unreachable") :
            /\ ledger[sid][i].amount = 15
            /\ ledger[sid][i].user_id = sessions[sid].user_id
  /\ \A u \in Users :
       balance[u] = InitialBalance + 15 * Cardinality(
         {sid \in SessionIds : /\ sessions[sid].user_id = u
                               /\ EntriesOf(ledger, sid, "vps.auto_refund_unreachable") # {}})

\* two log requests of one session were both answered 410
C17_Witness ==
  \E o1 \in Ops, o2 \in Ops :
    /\ o1 # o2 /\ ops[o1].sid = ops[o2].sid
    /\ \A o \in {o1, o2} : ops[o].kind = "log" /\ ops[o].pc = "done" /\ ops[o].code = 410
    /\ EntriesOf(ledger, ops[o1].sid, "vps.auto_refund_unreachable") # {}

\* C18: a log request whose log names an IP that no probe reaches is answered
\* 410 with the session deleted and exactly one credit of 15 recorded for it;
\* a log request answered with the log text changed neither rows nor wallet.
C18_UnreachableRefunded ==
  [][\A o \in Ops :
       /\ (Answered(o, "log") /\ ops[o].pc = "log_stop" /\ ops'[o].code # 500) =>
            /\ ops'[o].code = 410
            /\ sessions'[ops[o].sid].status = "deleted"
            /\ Cardinality(EntriesOf(ledger', ops[o].sid, "vps.auto_refund_unreachable")) = 1
       /\ (Answered(o, "log") /\ ops[o].pc = "fetch_log" /\ ops'[o].code = 200) =>
            UNCHANGED <<sessions, ledger, balance>>]_vars

\* C19: whatever the remote stop did (returned, raised an HTTP error, raised
\* anything else, was not attempted), a stop_session that commits leaves the
\* row deleted with route, log url and rdp fields cleared and expires_at at
\* the stop time, and a stop request is never answered with the remote failure.
C19_StopAlwaysDeletes ==
  [][/\ \A o \in Ops :
          Answered(o, "stop") =>
            \/ ops'[o].code = 404 /\ ops[o].pc = "idle"
            \/ ops'[o].code = 500 /\ ops'[o].detail = "Internal Server Error"
            \/ /\ ops'[o].code = 200
               /\ sessions'[ops'[o].sid].status = "deleted"
               /\ Cleared(sessions'[ops'[o].sid])
               /\ sessions'[ops'[o].sid].expires_at = now
     /\ \A sid \in SessionIds :
          (sessions'[sid] # sessions[sid] /\ sessions'[sid].status = "deleted")
            => Cleared(sessions'[sid]) /\ sessions'[sid].expires_at = now]_vars

\* a stop request whose remote stop failed was answered 200 with the row deleted
C19_Witness ==
  \E o \in Ops :
    /\ ops[o].kind = "stop" /\ ops[o].pc = "done" /\ ops[o].code = 200
    /\ ops[o].remote \in {"http", "exc"}
    /\ sessions[ops[o].sid].status = "deleted" /\ Cleared(sessions[ops[o].sid])

(* ------------------------ events of a purchase ------------------------- *)
\* the events published on session sid in this step
NewEvents(sid) ==
  LET before == IF sid <= Len(events) THEN Len(events[sid]) ELSE 0
  IN {events'[sid][i] : i \in (before + 1)..Len(events'[sid])}

\* C20: every event a purchase publishes reports the state its row holds in
\* the database by then: a status event the committed status, a checklist
\* event the committed checklist.
C20_EventsAfterCommit ==
  [][\A sid \in 1..Len(sessions') : \A e \in NewEvents(sid) :
       /\ e.event = "status.update" => e.status = sessions'[sid].status
       /\ e.event = "checklist.update" => e.items = sessions'[sid].checklist]_vars

\* a purchase published pending and then, refunded, failed
C20_Witness ==
  \E sid \in SessionIds :
    /\ sessions[sid].status = "failed"
    /\ Len(events[sid]) = 3
    /\ events[sid][2].event = "status.update" /\ events[sid][2].status = "pending"
    /\ events[sid][3].event = "status.update" /\ events[sid][3].status = "failed"

(* ------------------- the workers a purchase goes through ---------------- *)
\* the create_vm calls request r has issued, in order
CreateCalls(r) == SelectSeq(req[r].calls, LAMBDA c : c.op = "create_vm")

\* the step gives request r cause to leave its worker: token_left raised or
\* reported no capacity, or create_vm failed with a retryable detail before
\* the last attempt
SwitchCause(r) ==
  \/ /\ req[r].pc = "probe"
     /\ \/ req'[r].probe = "raised"
        \/ req'[r].probe = "value" /\ req'[r].tokens_left = 0
  \/ /\ req[r].pc = "create" /\ req'[r].pc # "create"
     /\ req[r].attempt < MAX_WORKER_RETRIES
     /\ \/ Contains(req'[r].exc.detail, "No available tokens")
        \/ Contains(req'[r].exc.detail, "Server busy")

C22_EndsProvisioningOrRefunded ==
  \A r \in Reqs :
    req[r].sid # 0 =>
      LET cc == CreateCalls(r)
      IN /\ Len(cc) <= MAX_WORKER_RETRIES
         /\ \A i, j \in 1..Len(cc) : i # j => cc[i].worker # cc[j].worker
         /\ (req[r].pc = "done" /\ req[r].detail \notin DbFailures)
            => \/ sessions[req[r].sid].status = "provisioning"
               \/ /\ sessions[req[r].sid].status = "failed"
                  /\ OneRefund(ledger, req[r].sid)

\* the sessions of user u whose debit has not been refunded
Unrefunded(u) ==
  {sid \in SessionIds : /\ sessions[sid].user_id = u
                        /\ EntriesOf(ledger, sid, "vps.refund") = {}}
\* the price of the cheapest product on sale
MinPrice ==
  Min({ProductRows[p].price_coins : p \in {q \in DOMAIN ProductRows : ProductRows[q].is_active}})

\* C23: whatever the interleaving of the purchases, no balance is ever
\* negative; a wallet that holds the price of one product only carries one
\* unrefunded debit at a time; and a purchase the wallet cannot pay is turned
\* away by the balance check ("Insufficient coin balance"), leaving rows,
\* ledger, balances and events as they were.
C23_NeverOverdrawn ==
  [][/\ \A u \in Users :
          /\ balance'[u] >= 0
          /\ 2 * MinPrice > InitialBalance => Cardinality(Unrefunded(u)') <= 1
     /\ \A r \in Reqs :
          ( /\ req[r].pc = "idle" /\ req'[r].pc = "done" /\ req'[r].code = 400
            /\ req'[r].detail \in {"Insufficient coin balance", "Insufficient balance"} )
          => /\ req'[r].detail = "Insufficient coin balance"
             /\ req'[r].sid = 0
             /\ UNCHANGED <<sessions, ledger, balance, events>>]_vars

\* a purchase was turned away while another purchase of the same user, under
\* another key, was in flight with its debit taken
C23_Witness ==
  \E r, q \in Reqs :
    /\ r # q /\ req[r].user = req[q].user /\ req[r].key # req[q].key
    /\ req[q].pc \in {"probe", "create"}
    /\ req[r].pc = "done" /\ req[r].detail = "Insufficient coin balance"
    /\ Len(sessions) = 1
    /\ balance[req[q].user] = InitialBalance - Price(req[q].sid)

\* C27: the row of a purchase that succeeded names the worker whose
\* create_vm call returned the route: the last worker the purchase called.
C27_WorkerOwnsRoute ==
  \A r \in Reqs :
    req[r].created =>
      LET cc == CreateCalls(r)
      IN /\ cc # <<>>
         /\ sessions[req[r].sid].worker_id = cc[Len(cc)].worker
         /\ sessions[req[r].sid].worker_id = req[r].worker
         /\ sessions[req[r].sid].worker_route = req[r].route

C27_Witness ==
  \E r \in Reqs :
    /\ req[r].created /\ req[r].route = "r1"
    /\ CreateCalls(r) = <<[op |-> "create_vm", worker |-> "w1"]>>
    /\ sessions[req[r].sid].worker_id = "w1"
    /\ sessions[req[r].sid].worker_route = "r1"

(* ----------------------- the bootstrap secret --------------------------- *)
\* the calls of kind op among the first n calls on the bootstrap record
BootCalls(op, n) == {i \in 1..n : boot.log[i].op = op}
\* the password configured by the last seed among the first n calls
ConfiguredAt(n) ==
  LET seeds == BootCalls("seed", n)
  IN boot.log[CHOOSE i \in seeds : \A j \in seeds : j <= i].arg

\* C24: a call of bootstrap_secret_valid made before any
\* mark_bootstrap_consumed answers true for the password configured by the
\* latest seed; every call made after a mark_bootstrap_consumed answers
\* false, whatever the secret and whatever was seeded in between; and once
\* the mark has run the stored record accepts no secret at all.
C24_OneShotSecret ==
  /\ \A j \in BootCalls("valid", Len(boot.log)) :
       /\ ( /\ BootCalls("mark", j) = {}
            /\ ConfiguredAt(j) # None
            /\ boot.log[j].arg = ConfiguredAt(j) ) => boot.log[j].ret
       /\ BootCalls("mark", j) # {} => ~boot.log[j].ret
  /\ BootCalls("mark", Len(boot.log)) # {}
       => \A secret \in Secrets : ~BootstrapSecretValid(boot.record, secret)

\* the secret was accepted, consumed, another password seeded, and that
\* password then refused
C24_Witness ==
  /\ Len(boot.log) = 4
  /\ boot.log[1] = [op |-> "seed", arg |-> "a", ret |-> FALSE]
  /\ boot.log[2].op = "mark"
  /\ boot.log[3] = [op |-> "seed", arg |-> "b", ret |-> FALSE]
  /\ boot.log[4] = [op |-> "valid", arg |-> "b", ret |-> FALSE]
  /\ boot.record.status = "consumed"

(* ---------------------- the POSTs of create_vm -------------------------- *)
\* C25: one create_vm call sends at most 3 POSTs; it sends another only
\* after a 429 and with fewer than 3 responses received; it stops at the
\* first response that is not a 429; and a third response that is still 429
\* ends the call with an HTTP 503 error.
C25_AtMostThreePosts ==
  [][/\ client'.posts <= 3
     /\ client'.posts = client.posts \/ client'.posts = client.posts + 1
     /\ (client.pc = "posting" /\ Len(client'.seen) > Len(client.seen)) =>
          LET n == Len(client'.seen)
              last == client'.seen[n]
          IN /\ n = client.posts
             /\ client'.posts > client.posts => last.status = 429 /\ n < 3
             /\ last.status # 429 => client'.pc = "done" /\ client'.posts = client.posts
             /\ (last.status = 429 /\ n < 3) => client'.pc = "posting"
             /\ (last.status = 429 /\ n = 3)
                  => /\ client'.pc = "done" /\ client'.posts = 3
                     /\ client'.result.kind = "http" /\ client'.result.code = 503]_vars

\* three POSTs were answered 429 and the call raised 503
C25_Witness ==
  /\ client.pc = "done" /\ client.posts = 3 /\ Len(client.seen) = 3
  /\ \A i \in 1..3 : client.seen[i].status = 429
  /\ client.result.kind = "http" /\ client.result.code = 503

(* --------------------------- the cleanup -------------------------------- *)
\* the step is one of cleanup request o: the call down to its first await,
\* or the answer of a stop_vm it awaited
CleanupStep(o) ==
  \/ ops[o].pc = "idle" /\ ops'[o].kind = "cleanup"
  \/ ops[o].pc = "cleanup_stop" /\ ops'[o] # ops[o]
\* the sessions the request has before it in this step: at the call, those
\* created before now - max_age in pending, provisioning or ready; later,
\* those of them still to be stopped
CleanupWork(o) ==
  IF ops[o].pc = "idle"
    THEN {sid \in SessionIds :
            /\ sessions[sid].created_at < now - ops'[o].max_age
            /\ sessions[sid].status \in {"pending", "provisioning", "ready"}}
  ELSE {ops[o].todo[i] : i \in 1..Len(ops[o].todo)}
\* the sessions left for after the step
CleanupRest(o) ==
  IF ops'[o].pc = "cleanup_stop" THEN {ops'[o].todo[i] : i \in 1..Len(ops'[o].todo)} ELSE {}

\* C26: a cleanup works through the sessions that at the call were created
\* before now - max_age in pending, provisioning or ready, and through no
\* other: each is marked deleted (cleared, expiring now) and counted, or its
\* stop fails, is logged and rolled back, and the loop goes on to the next;
\* the count rises by the sessions marked deleted; every other row, ledger
\* and balances stay as they were.
C26_CleanupFrame ==
  [][\A o \in Ops : CleanupStep(o) =>
       LET work == CleanupWork(o)
           rest == CleanupRest(o)
           failed == ops'[o].warned \ ops[o].warned
           stopped == (work \ rest) \ failed
       IN /\ rest \subseteq work /\ failed \subseteq work \ rest
          /\ ops'[o].pc \in {"done", "cleanup_stop"}
          /\ ops'[o].pc = "cleanup_stop" => rest # {}
          /\ \A sid \in stopped :
               /\ sessions'[sid].status = "deleted" /\ Cleared(sessions'[sid])
               /\ sessions'[sid].expires_at = now
          /\ \A sid \in SessionIds \ stopped : sessions'[sid] = sessions[sid]
          /\ Len(sessions') = Len(sessions)
          /\ ops'[o].cleaned = ops[o].cleaned + Cardinality(stopped)
          /\ ledger' = ledger /\ balance' = balance]_vars

\* a cleanup returned 1 with one old session deleted, one whose stop failed
\* still as it was, and nothing credited
C26_Witness ==
  \E o \in Ops :
    /\ ops[o].kind = "cleanup" /\ ops[o].pc = "done" /\ ops[o].cleaned = 1
    /\ ops[o].warned = {1} /\ Len(sessions) = 2
    /\ sessions[1].status \in {"pending", "provisioning", "ready"}
    /\ sessions[2].status = "deleted"
    /\ \A sid \in SessionIds : EntriesOf(ledger, sid, "vps.auto_refund_unreachable") = {}

(* ------------------------- replay of a key ------------------------------ *)
\* C30: a purchase under the (user, key) of an existing row, whatever the
\* status of the row, is answered 200 with that row, calls no worker and
\* leaves rows, ledger, balances and events as they were; no (user, key) ever
\* has a second row.
C30_ReplayAnyStatus ==
  [][/\ \A o \in Ops :
          (ops[o].pc = "idle" /\ ops'[o].kind = "purchase") =>
            /\ ops'[o].pc = "done" /\ ops'[o].code = 200
            /\ ops'[o].ret = ops'[o].sid
            /\ sessions[ops'[o].ret].user_id = ops'[o].user
            /\ ops'[o].calls = <<>>
            /\ UNCHANGED <<sessions, ledger, balance, events>>
     /\ \A i, j \in 1..Len(sessions') :
          ( /\ sessions'[i].user_id = sessions'[j].user_id
            /\ sessions'[i].idempotency_key = sessions'[j].idempotency_key ) => i = j]_vars

\* the key of a session that had expired was replayed and answered 200
C30_Witness ==
  \E o \in Ops :
    /\ ops[o].kind = "purchase" /\ ops[o].pc = "done" /\ ops[o].code = 200
    /\ sessions[ops[o].ret].status = "expired"
    /\ Len(sessions) = 1

(* -------------- a purchase in flight and the session requests ----------- *)
\* C28: once the session of a purchase still in flight has been marked
\* deleted, no step sets it to provisioning or failed, records a route on it
\* or adds a refund for it.
C28_DeletedWhileInFlight ==
  [][\A r \in Reqs :
       ( /\ req[r].pc \in {"probe", "create"}
         /\ sessions[req[r].sid].status = "deleted" )
       => /\ sessions'[req[r].sid].status \notin {"provisioning", "failed"}
          /\ sessions'[req[r].sid].worker_route = None
          /\ EntriesOf(ledger', req[r].sid, "vps.refund")
               = EntriesOf(ledger, req[r].sid, "vps.refund")]_vars

\* what the sessions of user u among the first n cost and returned: the price
\* of each that is not failed, less 15 for each with an unreachable refund
RECURSIVE NetSpent(_, _)
NetSpent(u, n) ==
  IF n = 0 THEN 0
  ELSE NetSpent(u, n - 1)
       + (IF sessions[n].user_id = u /\ sessions[n].status # "failed" THEN Price(n) ELSE 0)
       - (IF sessions[n].user_id = u
             /\ EntriesOf(ledger, n, "vps.auto_refund_unreachable") # {} THEN 15 ELSE 0)

\* C29: every balance is the initial balance less the prices of the user's
\* sessions that are not failed, plus 15 for each session with an unreachable
\* refund; and a session is never credited more in refunds than its debit.
C29_CoinConservation ==
  /\ \A u \in Users : balance[u] = InitialBalance - NetSpent(u, Len(sessions))
  /\ \A sid \in SessionIds :
       Cardinality(EntriesOf(ledger, sid, "vps.refund"))
         <= Cardinality(EntriesOf(ledger, sid, "vps.purchase"))

====
